---- MODULE Spec2Model ----
(***************************************************************************)
(* A3C training workers of algorithms/a3c (train.py, main.py).             *)
(*                                                                         *)
(* Every worker process runs train(): an endless loop that syncs its local *)
(* model from the shared model, rolls out at most args.num_steps steps of  *)
(* its own environment, computes the GAE losses, backpropagates, hands its *)
(* gradients to the shared model and takes one optimizer step.  The only   *)
(* lock guards the shared step counter.                                    *)
(*                                                                         *)
(* Real-valued quantities are held as integers:                            *)
(*   - gamma, tau, entropy_coef, rewards, values, log-probabilities and    *)
(*     entropies are integers;                                             *)
(*   - value_loss2 is TWICE the code's value_loss (0.5 * advantage^2       *)
(*     summed), so that it stays an integer;                               *)
(*   - an average is the pair [num, den]; den = 0 stands for -infinity.    *)
(***************************************************************************)
EXTENDS Integers, Sequences, FiniteSets, TLC

\* ---------------------------------------------------------------- bounds
NumProcesses == 2      \* workers of the concurrent configuration
NumParams == 2         \* parameter tensors of the model
MaxStepsConc == 2      \* environment steps (all workers) explored, concurrent
MaxStepsSolo == 4      \* environment steps explored, single worker, rich data
MaxStepsLong == 13     \* environment steps explored, single worker, long run
MaxRollout == 3        \* largest rollout length T drawn for the loss computation
NumSteps == 2          \* args.num_steps
MaxEpisodeLength == 3  \* args.max_episode_length
MaxGradNorm == 1       \* stand-in for args.max_grad_norm (gradient clip)
ParamMod == 2          \* parameter values are kept modulo ParamMod
IntMax == 2147483647   \* mp.Value('i', 0): counter.value is a C int

\* ---------------------------------------------------------------- state
VARIABLES
  args,          \* the parsed arguments (constant during a run)
  host,          \* what the environment and the host runtime can produce
  counter,       \* counter.value
  lock,          \* holder of the lock: a rank, or NoRank
  shared_model,  \* shared parameters: Params -> 0..ParamMod-1
  num_updates,   \* optimizer steps applied to shared_model so far
  pc,            \* rank -> position of the worker in train()
  model,         \* rank -> local parameters
  synced,        \* rank -> num_updates at the worker's last sync
  stale,         \* rank -> the last optimizer step of the worker met parameters
                 \*         updated by others since the worker's sync
  shared_grad,   \* rank -> Params -> NoGrad | Alias : the process's shared_param._grad
  grad,          \* rank -> Params -> NoGrad | integer : the local param.grad
  env_obs,       \* rank -> the observation the worker's environment now shows
  env_done,      \* rank -> the done flag the last env.step returned
  env_resets,    \* rank -> env.reset() calls made so far
  image_state,   \* rank -> the worker's image_state
  hx,            \* rank -> recurrent state (hx, cx)
  done,          \* rank -> done
  step,          \* rank -> index of the for loop over range(args.num_steps)
  value,         \* rank -> value of the last forward pass
  log_prob,      \* rank -> log-probability of the last sampled action
  reward,        \* rank -> reward of the last env.step
  values, log_probs, rewards, entropies,   \* rank -> the trajectory lists
  total_length, episode_number, episode_length,
  tmp,           \* rank -> counter value read inside "counter.value += 1"
  R,             \* rank -> bootstrap return chosen before the loss loop
  policy_loss, value_loss2,
  all_rewards_in_episode, episode_total_rewards_list,
  avg_episode_return, best_avg_episode_return,
  saves,         \* the save_checkpoint calls made so far, in order
  model_best,    \* content of model_best.pth.tar (NoFile when absent)
  log,           \* rank -> phases performed in the current loop iteration
  copies         \* rank -> Params -> assignments to shared_param._grad, this iteration

shared == <<counter, lock, shared_model, num_updates>>
config == <<args, host>>
netVars == <<model, synced, stale, shared_grad, grad>>
envVars == <<env_obs, env_done, env_resets, image_state, hx, done, step, value,
            log_prob, reward>>
trajVars == <<values, log_probs, rewards, entropies>>
progress == <<total_length, episode_number, episode_length, tmp>>
lossVars == <<R, policy_loss, value_loss2>>
monitor == <<all_rewards_in_episode, episode_total_rewards_list,
             avg_episode_return, best_avg_episode_return>>
disk == <<saves, model_best>>
vars == <<config, shared, pc, netVars, envVars, trajVars, progress, lossVars,
          monitor, disk, log, copies>>

NoRank == -1
NoGrad == -99
Alias == 99
NoFile == [total_length |-> -1, avg |-> [num |-> 0, den |-> 0]]
Params == 1..NumParams
Ranks == 0..(args.num_processes - 1)
NegInf == [num |-> -1, den |-> 0]

\* ---------------------------------------------------------------- helpers
RECURSIVE SumSeq(_)
SumSeq(s) == IF s = <<>> THEN 0 ELSE Head(s) + SumSeq(Tail(s))

RECURSIVE SumFun(_, _)
SumFun(f, S) ==
  IF S = {} THEN 0
  ELSE LET x == CHOOSE y \in S : TRUE IN f[x] + SumFun(f, S \ {x})

Min(a, b) == IF a < b THEN a ELSE b
Max(a, b) == IF a > b THEN a ELSE b

\* v + 1 stored in a C int: the value wraps at IntMax
Increment(v) == IF v = IntMax THEN (0 - IntMax) - 1 ELSE v + 1

\* a > b for averages ([num, den], den = 0 is -infinity)
Greater(a, b) ==
  IF a.den = 0 THEN FALSE
  ELSE IF b.den = 0 THEN TRUE
  ELSE a.num * b.den > b.num * a.den

\* s[-n:] of Python
LastN(s, n) == IF Len(s) <= n THEN s ELSE SubSeq(s, Len(s) - n + 1, Len(s))

\* environment steps taken by all workers since the start of the run
StepsTaken == SumFun([w \in Ranks |-> total_length[w] - args.total_length], Ranks)

\* ---------------------------------------------------------------- the network
avg_over_num_episodes == 10

\* model((image_state, (hx, cx))): the critic's value and the next recurrent
\* state, a function of the parameters, the observation and the recurrent state
Forward(theta, s, h) ==
  [value |-> ((SumFun(theta, Params) + s + h) % 3) - 1,
   hx    |-> (h + s + 1) % host.hidden]

\* gradient that backward() adds to parameter p for the loss
\* policy_loss + args.value_loss_coef * value_loss (value_loss_coef = 0.5,
\* so four times the loss is 4 * policy_loss + value_loss2)
RawGrad(pl, vl2, p) == ((4 * pl + vl2 + p) % 3) - 1

\* torch.nn.utils.clip_grad_norm_: the gradient is brought back within the norm
Clip(g) == Max(0 - MaxGradNorm, Min(MaxGradNorm, g))

\* a turn that leaves tau out of the advantage estimate
GAETurnNoTau(i, acc, rs, vs, lps, es) ==
  LET R1        == args.gamma * acc.R + rs[i]
      advantage == R1 - vs[i]
      delta_t   == rs[i] + args.gamma * vs[i + 1] - vs[i]
      gae1      == acc.gae * args.gamma + delta_t
  IN  [R           |-> R1,
       value_loss2 |-> acc.value_loss2 + advantage * advantage,
       gae         |-> gae1,
       policy_loss |-> acc.policy_loss - lps[i] * gae1 - args.entropy_coef * es[i]]

\* One turn of the loop "for i in reversed(range(len(rewards)))" for index i
\* (1-based here), from the accumulators acc of the turns before it.
GAETurn(i, acc, rs, vs, lps, es) ==
  LET R1        == args.gamma * acc.R + rs[i]
      advantage == R1 - vs[i]
      delta_t   == rs[i] + args.gamma * vs[i + 1] - vs[i]
      gae1      == acc.gae * args.gamma * args.tau + delta_t
  IN  [R           |-> R1,
       value_loss2 |-> acc.value_loss2 + advantage * advantage,
       gae         |-> gae1,
       policy_loss |-> acc.policy_loss - lps[i] * gae1 - args.entropy_coef * es[i]]

\* The whole loop, from i = len(rewards) down to 1.
RECURSIVE GAELoop(_, _, _, _, _, _)
GAELoop(i, acc, rs, vs, lps, es) ==
  IF i = 0 THEN acc
  ELSE GAELoop(i - 1, GAETurn(i, acc, rs, vs, lps, es), rs, vs, lps, es)

\* ensure_shared_grads: shared_param._grad = param.grad for the parameters in
\* order, returning at the first one whose shared gradient is already set.
\* Yields the new shared gradients of the process and the parameters assigned.
RECURSIVE EnsureLoop(_, _, _)
EnsureLoop(p, sg, assigned) ==
  IF p > NumParams THEN [sg |-> sg, assigned |-> assigned]
  ELSE IF sg[p] # NoGrad THEN [sg |-> sg, assigned |-> assigned]
  ELSE EnsureLoop(p + 1, [sg EXCEPT ![p] = Alias], assigned \cup {p})

\* ensure_shared_grads without the test "shared_param.grad is not None"
ensure_shared_grads_overwriting(w) ==
  [sg |-> [p \in Params |-> Alias], assigned |-> Params]

ensure_shared_grads(w) == EnsureLoop(1, shared_grad[w], {})

\* ---------------------------------------------------------------- train()
Phase(w, name) == IF log[w] # <<>> /\ log[w][Len(log[w])] = name
                  THEN log[w] ELSE Append(log[w], name)

\* train.py 99-110: model.load_state_dict(shared_model.state_dict()), taken
\* as one step (nothing orders it against the other workers' optimizer
\* steps); then the recurrent state is reset or kept and the trajectory
\* lists start empty.
Sync(w) ==
  /\ pc[w] = "sync"
  /\ model' = [model EXCEPT ![w] = shared_model]
  /\ synced' = [synced EXCEPT ![w] = num_updates]
  /\ hx' = [hx EXCEPT ![w] = IF done[w] THEN 0 ELSE @]
  /\ values' = [values EXCEPT ![w] = <<>>]
  /\ log_probs' = [log_probs EXCEPT ![w] = <<>>]
  /\ rewards' = [rewards EXCEPT ![w] = <<>>]
  /\ entropies' = [entropies EXCEPT ![w] = <<>>]
  /\ step' = [step EXCEPT ![w] = 0]
  /\ log' = [log EXCEPT ![w] = <<"sync">>]
  /\ copies' = [copies EXCEPT ![w] = [p \in Params |-> 0]]
  /\ pc' = [pc EXCEPT ![w] = "ckpt"]
  /\ UNCHANGED <<config, shared, stale, shared_grad, grad, env_obs, env_done,
                 env_resets, image_state, done, value, log_prob, reward, progress,
                 lossVars, monitor, disk>>

\* the test without "rank == 0"
CheckpointDueAnyRank(w) ==
  /\ total_length[w] > 0
  /\ total_length[w] % (args.checkpoint_freq \div args.num_processes) = 0

\* train.py 115-116: the test that decides whether this turn of the for loop
\* saves a checkpoint
CheckpointDue(w) ==
  /\ w = 0
  /\ total_length[w] > 0
  /\ total_length[w] % (args.checkpoint_freq \div args.num_processes) = 0

\* train.py 113-128 and save_checkpoint (34-39): top of a turn of the for loop
Checkpoint(w) ==
  /\ pc[w] = "ckpt"
  /\ IF CheckpointDue(w)
     THEN LET best_so_far == Greater(avg_episode_return[w], best_avg_episode_return[w])
              file == [total_length |-> total_length[w], avg |-> avg_episode_return[w]]
          IN  /\ saves' = Append(saves, [rank |-> w, total_length |-> total_length[w],
                                         episode_number |-> episode_number[w],
                                         counter |-> counter,
                                         avg |-> avg_episode_return[w],
                                         is_best |-> best_so_far])
              /\ model_best' = IF best_so_far THEN file ELSE model_best
     ELSE UNCHANGED disk
  /\ pc' = [pc EXCEPT ![w] = "act"]
  /\ UNCHANGED <<config, shared, netVars, envVars, trajVars, progress, lossVars,
                 monitor, log, copies>>

\* done >= max_episode_length, where > would let an episode run one step over
DoneAfterStepLate(d, len) == d \/ len > args.max_episode_length

\* train.py 151: done = done or episode_length >= args.max_episode_length
DoneAfterStep(d, len) == d \/ len >= args.max_episode_length

\* train.py 130-151: forward pass, sampled action, env.step, the two length
\* counters and done.  The environment answers with any observation, reward
\* and done flag it can produce; the sampled action decides log_prob.
Interact(w) ==
  /\ pc[w] = "act"
  /\ StepsTaken < host.horizon
  /\ \E obs \in host.obs, r \in host.rewards, d \in host.dones,
        lp \in host.log_probs, ent \in host.entropies :
       LET out == Forward(model[w], image_state[w], hx[w])
       IN  /\ value' = [value EXCEPT ![w] = out.value]
           /\ hx' = [hx EXCEPT ![w] = out.hx]
           /\ entropies' = [entropies EXCEPT ![w] = Append(@, ent)]
           /\ log_prob' = [log_prob EXCEPT ![w] = lp]
           /\ env_obs' = [env_obs EXCEPT ![w] = obs]
           /\ reward' = [reward EXCEPT ![w] = r]
           /\ image_state' = [image_state EXCEPT ![w] = obs]
           /\ episode_length' = [episode_length EXCEPT ![w] = @ + 1]
           /\ total_length' = [total_length EXCEPT ![w] = @ + 1]
           /\ env_done' = [env_done EXCEPT ![w] = d]
           /\ done' = [done EXCEPT ![w] = DoneAfterStep(d, episode_length[w] + 1)]
  /\ log' = [log EXCEPT ![w] = Phase(w, "rollout")]
  /\ pc' = [pc EXCEPT ![w] = "lock"]
  /\ UNCHANGED <<config, shared, netVars, env_resets, step, values, log_probs,
                 rewards, episode_number, tmp, lossVars, monitor, disk, copies>>

\* Acquire that does not wait for the lock to be free
AcquireNoWait(w) ==
  /\ pc[w] = "lock"
  /\ lock' = w
  /\ pc' = [pc EXCEPT ![w] = "load"]
  /\ UNCHANGED <<config, counter, shared_model, num_updates, netVars, envVars,
                 trajVars, progress, lossVars, monitor, disk, log, copies>>

\* train.py 153: "with lock:" enters once the lock is free
Acquire(w) ==
  /\ pc[w] = "lock"
  /\ lock = NoRank
  /\ lock' = w
  /\ pc' = [pc EXCEPT ![w] = "load"]
  /\ UNCHANGED <<config, counter, shared_model, num_updates, netVars, envVars,
                 trajVars, progress, lossVars, monitor, disk, log, copies>>

\* train.py 154: counter.value += 1 reads counter.value ...
Load(w) ==
  /\ pc[w] = "load"
  /\ tmp' = [tmp EXCEPT ![w] = counter]
  /\ pc' = [pc EXCEPT ![w] = "store"]
  /\ UNCHANGED <<config, shared, netVars, envVars, trajVars, total_length,
                 episode_number, episode_length, lossVars, monitor, disk, log, copies>>

\* ... and writes the sum back
Store(w) ==
  /\ pc[w] = "store"
  /\ counter' = Increment(tmp[w])
  /\ pc' = [pc EXCEPT ![w] = "unlock"]
  /\ UNCHANGED <<config, lock, shared_model, num_updates, netVars, envVars,
                 trajVars, progress, lossVars, monitor, disk, log, copies>>

\* leaving the with block without releasing the lock
ReleaseKeepingLock(w) ==
  /\ pc[w] = "unlock"
  /\ pc' = [pc EXCEPT ![w] = "tail"]
  /\ UNCHANGED <<config, shared, netVars, envVars, trajVars, progress, lossVars,
                 monitor, disk, log, copies>>

\* train.py 153-154: leaving the with block releases the lock
Release(w) ==
  /\ pc[w] = "unlock"
  /\ lock' = NoRank
  /\ pc' = [pc EXCEPT ![w] = "tail"]
  /\ UNCHANGED <<config, counter, shared_model, num_updates, netVars, envVars,
                 trajVars, progress, lossVars, monitor, disk, log, copies>>

\* the for loop without "if done: break"
RolloutEndsAtBudgetOnly(w) == step[w] + 1 >= args.num_steps

\* train.py 113 and 191-192: the for loop ends after args.num_steps turns, or
\* at once when done
RolloutEnds(w) == done[w] \/ step[w] + 1 >= args.num_steps

\* train.py 156-192: end of episode bookkeeping and environment reset when
\* done, then the appends to the trajectory lists and the loop exit.
EndOfStep(w) ==
  /\ pc[w] = "tail"
  /\ IF done[w]
     THEN LET total_reward_for_episode == SumSeq(all_rewards_in_episode[w])
              list == Append(episode_total_rewards_list[w], total_reward_for_episode)
              last == LastN(list, avg_over_num_episodes)
          IN  /\ episode_total_rewards_list' =
                     [episode_total_rewards_list EXCEPT ![w] = list]
              /\ avg_episode_return' = [avg_episode_return EXCEPT ![w] =
                     IF Len(list) > avg_over_num_episodes
                     THEN [num |-> SumSeq(last), den |-> Len(last)] ELSE @]
              /\ all_rewards_in_episode' =
                     [all_rewards_in_episode EXCEPT ![w] = <<reward[w]>>]
              /\ \E obs \in host.obs :
                     /\ env_obs' = [env_obs EXCEPT ![w] = obs]
                     /\ image_state' = [image_state EXCEPT ![w] = obs]
              /\ env_resets' = [env_resets EXCEPT ![w] = @ + 1]
              /\ episode_number' = [episode_number EXCEPT ![w] = @ + 1]
              /\ episode_length' = [episode_length EXCEPT ![w] = 0]
     ELSE /\ all_rewards_in_episode' =
                     [all_rewards_in_episode EXCEPT ![w] = Append(@, reward[w])]
          /\ UNCHANGED <<episode_total_rewards_list, avg_episode_return, env_obs,
                         env_resets, image_state, episode_number, episode_length>>
  /\ values' = [values EXCEPT ![w] = Append(@, value[w])]
  /\ log_probs' = [log_probs EXCEPT ![w] = Append(@, log_prob[w])]
  /\ rewards' = [rewards EXCEPT ![w] = Append(@, reward[w])]
  /\ IF RolloutEnds(w)
     THEN pc' = [pc EXCEPT ![w] = "loss"] /\ UNCHANGED step
     ELSE pc' = [pc EXCEPT ![w] = "ckpt"] /\ step' = [step EXCEPT ![w] = @ + 1]
  /\ UNCHANGED <<config, shared, netVars, env_done, hx, done, value, log_prob,
                 reward, entropies, total_length, tmp, lossVars,
                 best_avg_episode_return, disk, log, copies>>

\* the bootstrap return without the test of done
BootstrapAlways(w) == Forward(model[w], image_state[w], hx[w]).value

\* train.py 196-206: the bootstrap return
Bootstrap(w) ==
  IF ~done[w] THEN Forward(model[w], image_state[w], hx[w]).value ELSE 0

\* train.py 196-223: bootstrap return, values.append(R) and the loss loop
ComputeLoss(w) ==
  /\ pc[w] = "loss"
  /\ LET R0  == Bootstrap(w)
         vs  == Append(values[w], R0)
         acc == GAELoop(Len(rewards[w]),
                        [R |-> R0, value_loss2 |-> 0, gae |-> 0, policy_loss |-> 0],
                        rewards[w], vs, log_probs[w], entropies[w])
     IN  /\ R' = [R EXCEPT ![w] = R0]
         /\ values' = [values EXCEPT ![w] = vs]
         /\ policy_loss' = [policy_loss EXCEPT ![w] = acc.policy_loss]
         /\ value_loss2' = [value_loss2 EXCEPT ![w] = acc.value_loss2]
  /\ log' = [log EXCEPT ![w] = Append(@, "loss")]
  /\ pc' = [pc EXCEPT ![w] = "backward"]
  /\ UNCHANGED <<config, shared, netVars, envVars, log_probs, rewards, entropies,
                 progress, monitor, disk, copies>>

\* train.py 225-228: optimizer.zero_grad() acts on the gradients of the
\* shared parameters as this process sees them (it either zeroes the tensor
\* in place, which is the local gradient once aliased, or drops it, by the
\* version of the runtime); backward() accumulates into the local gradients;
\* clip_grad_norm_ bounds them.
Backward(w) ==
  /\ pc[w] = "backward"
  /\ LET zeroed == [p \in Params |->
                     IF ~host.set_to_none /\ shared_grad[w][p] = Alias THEN 0
                     ELSE grad[w][p]]
     IN  grad' = [grad EXCEPT ![w] = [p \in Params |->
                    Clip((IF zeroed[p] = NoGrad THEN 0 ELSE zeroed[p])
                         + RawGrad(policy_loss[w], value_loss2[w], p))]]
  /\ shared_grad' = [shared_grad EXCEPT ![w] =
                       IF host.set_to_none THEN [p \in Params |-> NoGrad] ELSE @]
  /\ log' = [log EXCEPT ![w] = Append(@, "backward")]
  /\ pc' = [pc EXCEPT ![w] = "push"]
  /\ UNCHANGED <<config, shared, model, synced, stale, envVars, trajVars, progress,
                 lossVars, monitor, disk, copies>>

\* train.py 230: ensure_shared_grads(model, shared_model)
Push(w) ==
  /\ pc[w] = "push"
  /\ LET res == ensure_shared_grads(w)
     IN  /\ shared_grad' = [shared_grad EXCEPT ![w] = res.sg]
         /\ copies' = [copies EXCEPT ![w] =
                         [p \in Params |-> IF p \in res.assigned THEN @[p] + 1 ELSE @[p]]]
  /\ log' = [log EXCEPT ![w] = Append(@, "push")]
  /\ pc' = [pc EXCEPT ![w] = "optstep"]
  /\ UNCHANGED <<config, shared, model, synced, stale, grad, envVars, trajVars,
                 progress, lossVars, monitor, disk>>

\* an optimizer step that leaves the loop at the rollout, without a sync
OptimizerStepNoSync(w) ==
  /\ pc[w] = "optstep"
  /\ shared_model' = [p \in Params |->
                        IF shared_grad[w][p] = Alias
                        THEN (shared_model[p] - grad[w][p]) % ParamMod
                        ELSE shared_model[p]]
  /\ num_updates' = num_updates + 1
  /\ stale' = [stale EXCEPT ![w] = (num_updates # synced[w])]
  /\ log' = [log EXCEPT ![w] = Append(@, "step")]
  /\ pc' = [pc EXCEPT ![w] = "ckpt"]
  /\ UNCHANGED <<config, counter, lock, model, synced, shared_grad, grad, envVars,
                 trajVars, progress, lossVars, monitor, disk, copies>>

\* train.py 231: optimizer.step() updates the shared parameters in place from
\* the gradients the process sees on them; a parameter without gradient is
\* skipped.  No lock is taken.
OptimizerStep(w) ==
  /\ pc[w] = "optstep"
  /\ shared_model' = [p \in Params |->
                        IF shared_grad[w][p] = Alias
                        THEN (shared_model[p] - grad[w][p]) % ParamMod
                        ELSE shared_model[p]]
  /\ num_updates' = num_updates + 1
  /\ stale' = [stale EXCEPT ![w] = (num_updates # synced[w])]
  /\ log' = [log EXCEPT ![w] = Append(@, "step")]
  /\ pc' = [pc EXCEPT ![w] = "sync"]
  /\ UNCHANGED <<config, counter, lock, model, synced, shared_grad, grad, envVars,
                 trajVars, progress, lossVars, monitor, disk, copies>>

Next ==
  \/ \E w \in Ranks : Sync(w)
  \/ \E w \in Ranks : Checkpoint(w)
  \/ \E w \in Ranks : Interact(w)
  \/ \E w \in Ranks : Acquire(w)
  \/ \E w \in Ranks : Load(w)
  \/ \E w \in Ranks : Store(w)
  \/ \E w \in Ranks : Release(w)
  \/ \E w \in Ranks : EndOfStep(w)
  \/ \E w \in Ranks : ComputeLoss(w)
  \/ \E w \in Ranks : Backward(w)
  \/ \E w \in Ranks : Push(w)
  \/ \E w \in Ranks : OptimizerStep(w)

\* ---------------------------------------------------------------- start
\* State of every worker when it reaches "while True" (train.py 52-96), for
\* the arguments a and the host h; main.py 82-83 for counter and lock.
Start(a, h) ==
  /\ args = a
  /\ host = h
  /\ counter = 0
  /\ lock = NoRank
  /\ shared_model = [p \in Params |-> p % ParamMod]
  /\ num_updates = 0
  /\ pc = [w \in 0..(a.num_processes - 1) |-> "sync"]
  /\ model = [w \in 0..(a.num_processes - 1) |-> [p \in Params |-> 0]]
  /\ synced = [w \in 0..(a.num_processes - 1) |-> 0]
  /\ stale = [w \in 0..(a.num_processes - 1) |-> FALSE]
  /\ shared_grad = [w \in 0..(a.num_processes - 1) |-> [p \in Params |-> NoGrad]]
  /\ grad = [w \in 0..(a.num_processes - 1) |-> [p \in Params |-> NoGrad]]
  /\ env_obs \in [0..(a.num_processes - 1) -> h.obs]
  /\ image_state = env_obs
  /\ env_done = [w \in 0..(a.num_processes - 1) |-> FALSE]
  /\ env_resets = [w \in 0..(a.num_processes - 1) |-> 1]
  /\ hx = [w \in 0..(a.num_processes - 1) |-> 0]
  /\ done = [w \in 0..(a.num_processes - 1) |-> TRUE]
  /\ step = [w \in 0..(a.num_processes - 1) |-> 0]
  /\ value = [w \in 0..(a.num_processes - 1) |-> 0]
  /\ log_prob = [w \in 0..(a.num_processes - 1) |-> 0]
  /\ reward = [w \in 0..(a.num_processes - 1) |-> 0]
  /\ values = [w \in 0..(a.num_processes - 1) |-> <<>>]
  /\ log_probs = [w \in 0..(a.num_processes - 1) |-> <<>>]
  /\ rewards = [w \in 0..(a.num_processes - 1) |-> <<>>]
  /\ entropies = [w \in 0..(a.num_processes - 1) |-> <<>>]
  /\ total_length = [w \in 0..(a.num_processes - 1) |-> a.total_length]
  /\ episode_number = [w \in 0..(a.num_processes - 1) |-> a.episode_number]
  /\ episode_length = [w \in 0..(a.num_processes - 1) |-> 0]
  /\ tmp = [w \in 0..(a.num_processes - 1) |-> 0]
  /\ R = [w \in 0..(a.num_processes - 1) |-> 0]
  /\ policy_loss = [w \in 0..(a.num_processes - 1) |-> 0]
  /\ value_loss2 = [w \in 0..(a.num_processes - 1) |-> 0]
  /\ all_rewards_in_episode = [w \in 0..(a.num_processes - 1) |-> <<>>]
  /\ episode_total_rewards_list = [w \in 0..(a.num_processes - 1) |-> <<>>]
  /\ avg_episode_return = [w \in 0..(a.num_processes - 1) |-> NegInf]
  /\ best_avg_episode_return = [w \in 0..(a.num_processes - 1) |-> NegInf]
  /\ saves = <<>>
  /\ model_best = NoFile
  /\ log = [w \in 0..(a.num_processes - 1) |-> <<>>]
  /\ copies = [w \in 0..(a.num_processes - 1) |-> [p \in Params |-> 0]]

\* Several workers, an environment with one observation and one reward.
\* The run starts afresh or resumes at total_length 1 or 2.
Init ==
  \E tl \in {0, 1, 2} :
    Start([num_processes |-> NumProcesses, num_steps |-> NumSteps,
           max_episode_length |-> MaxEpisodeLength,
           checkpoint_freq |-> 2 * NumProcesses, total_length |-> tl,
           episode_number |-> 0, gamma |-> 1, tau |-> 1, entropy_coef |-> 1],
          [obs |-> {0}, rewards |-> {1}, dones |-> BOOLEAN, log_probs |-> {-1},
           entropies |-> {1}, hidden |-> 1, set_to_none |-> FALSE,
           horizon |-> MaxStepsConc])

Spec == Init /\ [][Next]_vars

\* One worker, an environment with several observations and rewards, either
\* behaviour of zero_grad.
InitSolo ==
  \E stn \in BOOLEAN :
    Start([num_processes |-> 1, num_steps |-> NumSteps,
           max_episode_length |-> MaxEpisodeLength,
           checkpoint_freq |-> 2, total_length |-> 0,
           episode_number |-> 0, gamma |-> 2, tau |-> 1, entropy_coef |-> 1],
          [obs |-> {0, 1}, rewards |-> {0, 1}, dones |-> BOOLEAN, log_probs |-> {-1},
           entropies |-> {1}, hidden |-> 2, set_to_none |-> stn,
           horizon |-> MaxStepsSolo])

SpecSolo == InitSolo /\ [][Next]_vars

\* One worker on a long run of one-step episodes, a checkpoint at every step.
InitLong ==
  Start([num_processes |-> 1, num_steps |-> NumSteps, max_episode_length |-> 1,
         checkpoint_freq |-> 1, total_length |-> 0,
         episode_number |-> 0, gamma |-> 1, tau |-> 1, entropy_coef |-> 1],
        [obs |-> {0}, rewards |-> {0, 1}, dones |-> {FALSE}, log_probs |-> {-1},
         entropies |-> {1}, hidden |-> 1, set_to_none |-> FALSE,
         horizon |-> MaxStepsLong])

SpecLong == InitLong /\ [][Next]_vars

\* One worker that has just finished a rollout of T steps (one episode so
\* far), with any rewards, value estimates, log-probabilities and entropies.
InitGAE ==
  \E T \in 1..MaxRollout, d \in BOOLEAN, obs \in {0, 2} :
  \E rs \in [1..T -> {-1, 2}], vs \in [1..T -> {-1, 1}],
     lps \in [1..T -> {-2, -1}], es \in [1..T -> {0, 1}] :
    /\ args = [num_processes |-> 1, num_steps |-> T,
               max_episode_length |-> MaxRollout + 1,
               checkpoint_freq |-> MaxRollout + 1, total_length |-> 0,
               episode_number |-> 0, gamma |-> 2, tau |-> 3, entropy_coef |-> 2]
    /\ host = [obs |-> {0, 2}, rewards |-> {-1, 2}, dones |-> BOOLEAN,
               log_probs |-> {-2, -1}, entropies |-> {0, 1}, hidden |-> 1,
               set_to_none |-> FALSE, horizon |-> T]
    /\ counter = T
    /\ lock = NoRank
    /\ shared_model = [p \in Params |-> 0]
    /\ num_updates = 0
    /\ pc = [w \in {0} |-> "loss"]
    /\ model = [w \in {0} |-> [p \in Params |-> 0]]
    /\ synced = [w \in {0} |-> 0]
    /\ stale = [w \in {0} |-> FALSE]
    /\ shared_grad = [w \in {0} |-> [p \in Params |-> NoGrad]]
    /\ grad = [w \in {0} |-> [p \in Params |-> NoGrad]]
    /\ env_obs = [w \in {0} |-> obs]
    /\ image_state = env_obs
    /\ env_done = [w \in {0} |-> d]
    /\ env_resets = [w \in {0} |-> IF d THEN 2 ELSE 1]
    /\ hx = [w \in {0} |-> 0]
    /\ done = [w \in {0} |-> d]
    /\ step = [w \in {0} |-> T - 1]
    /\ value = [w \in {0} |-> vs[T]]
    /\ log_prob = [w \in {0} |-> lps[T]]
    /\ reward = [w \in {0} |-> rs[T]]
    /\ values = [w \in {0} |-> vs]
    /\ log_probs = [w \in {0} |-> lps]
    /\ rewards = [w \in {0} |-> rs]
    /\ entropies = [w \in {0} |-> es]
    /\ total_length = [w \in {0} |-> T]
    /\ episode_number = [w \in {0} |-> IF d THEN 1 ELSE 0]
    /\ episode_length = [w \in {0} |-> IF d THEN 0 ELSE T]
    /\ tmp = [w \in {0} |-> T - 1]
    /\ R = [w \in {0} |-> 0]
    /\ policy_loss = [w \in {0} |-> 0]
    /\ value_loss2 = [w \in {0} |-> 0]
    /\ all_rewards_in_episode = [w \in {0} |-> IF d THEN <<rs[T]>> ELSE rs]
    /\ episode_total_rewards_list =
         [w \in {0} |-> IF d THEN <<SumSeq(SubSeq(rs, 1, T - 1))>> ELSE <<>>]
    /\ avg_episode_return = [w \in {0} |-> NegInf]
    /\ best_avg_episode_return = [w \in {0} |-> NegInf]
    /\ saves = <<>>
    /\ model_best = NoFile
    /\ log = [w \in {0} |-> <<"sync", "rollout">>]
    /\ copies = [w \in {0} |-> [p \in Params |-> 0]]

NextGAE == \E w \in Ranks : ComputeLoss(w)

SpecGAE == InitGAE /\ [][NextGAE]_vars

\* ================================================================ claims

\* ---------------------------------------------------------------- C1
\* the worker is inside "with lock: counter.value += 1"
InLockedIncrement(w) == pc[w] \in {"load", "store", "unlock"}

\* the worker has taken an environment step whose increment is not yet written
IncrementOwed(w) == pc[w] \in {"lock", "load", "store"}

\* C1 as stated: whenever no worker is inside the locked increment, the
\* counter equals the number of environment steps completed by all workers.
C1_AsStated ==
  (\A w \in Ranks : ~InLockedIncrement(w)) => counter = StepsTaken

\* C1 (amended): the counter is written only by the worker that holds the
\* lock, each write adds exactly 1, the counter always equals the number of
\* environment steps taken minus the steps whose increment is still owed (so
\* none is lost and it never decreases), and it equals the number of steps
\* taken whenever no worker is between an environment step and the end of
\* its locked increment.
C1_CounterUnderLock ==
  /\ [](counter = StepsTaken - Cardinality({w \in Ranks : IncrementOwed(w)}))
  /\ []((\A w \in Ranks : ~IncrementOwed(w) /\ ~InLockedIncrement(w))
          => counter = StepsTaken)
  /\ [][counter' # counter =>
          /\ lock \in Ranks
          /\ pc[lock] = "store"
          /\ pc'[lock] = "unlock"
          /\ \A w \in Ranks : InLockedIncrement(w) => w = lock
          /\ counter' = counter + 1]_vars

\* Both workers have taken steps, all increments are written, the lock is free.
C1_Witness ==
  /\ \A w \in Ranks : total_length[w] > args.total_length
  /\ \A w \in Ranks : ~IncrementOwed(w) /\ ~InLockedIncrement(w)
  /\ args.num_processes >= 2
  /\ counter = StepsTaken
  /\ lock = NoRank

\* ---------------------------------------------------------------- C2
Count(s, x) == Cardinality({i \in 1..Len(s) : s[i] = x})

\* C2: in one update no shared gradient buffer is assigned more than once,
\* ensure_shared_grads assigns only buffers that are None and leaves every
\* buffer that is already set as it is, and the call is followed by exactly
\* one optimizer step before the next sync.
C2_SharedGradsOnce ==
  /\ [](\A w \in Ranks : \A p \in Params : copies[w][p] <= 1)
  /\ [][\A w \in Ranks : \A p \in Params :
          /\ copies'[w][p] > copies[w][p] => shared_grad[w][p] = NoGrad
          /\ (pc[w] = "push" /\ shared_grad[w][p] # NoGrad)
               => shared_grad'[w][p] = shared_grad[w][p]]_vars
  /\ [](\A w \in Ranks :
          /\ pc[w] = "optstep" =>
               Count(log[w], "push") = 1 /\ Count(log[w], "step") = 0
          /\ (pc[w] = "sync" /\ log[w] # <<>>) =>
               /\ Count(log[w], "push") = 1 /\ Count(log[w], "step") = 1
               /\ log[w][Len(log[w])] = "step"
               /\ log[w][Len(log[w]) - 1] = "push")

\* A later update of a worker whose shared gradients were already set: the
\* call has returned without assigning any of them.
C2_Witness ==
  \E w \in Ranks :
    /\ pc[w] = "optstep"
    /\ num_updates >= 1
    /\ \A p \in Params : shared_grad[w][p] = Alias /\ copies[w][p] = 0

\* ---------------------------------------------------------------- C3
\* the worker is between the loss computation and the end of its update
AtGradientStep(w) == pc[w] \in {"backward", "push", "optstep"}

\* the last step of the rollout ended the episode: the episode was reset
LastStepEndedEpisode(w) == episode_length[w] = 0

\* C3: once the loss is computed, R is 0 if the last step of the rollout
\* ended the episode and otherwise the critic's value of the observation the
\* environment shows after that step; it is the last entry of values.
C3_Bootstrap ==
  \A w \in Ranks : AtGradientStep(w) =>
    /\ R[w] = IF LastStepEndedEpisode(w) THEN 0
              ELSE Forward(model[w], env_obs[w], hx[w]).value
    /\ Len(values[w]) = Len(rewards[w]) + 1
    /\ values[w][Len(values[w])] = R[w]

\* An episode ended by the length cap alone (the environment did not report
\* done) in a state the critic values differently from 0.
C3_Witness ==
  \E w \in Ranks :
    /\ pc[w] = "backward"
    /\ LastStepEndedEpisode(w)
    /\ ~env_done[w]
    /\ R[w] = 0
    /\ Forward(model[w], env_obs[w], hx[w]).value # 0

\* ---------------------------------------------------------------- C9
\* C9: at a gradient step the lists hold T transitions, 1 <= T <= num_steps
\* (values one more), T < num_steps only if the last transition ended the
\* episode; a rollout takes no step after a transition that ended an
\* episode; the lists are empty when a rollout starts.
C9_Trajectory ==
  \A w \in Ranks :
    /\ AtGradientStep(w) =>
         LET T == Len(rewards[w])
         IN  /\ 1 <= T /\ T <= args.num_steps
             /\ Len(log_probs[w]) = T
             /\ Len(entropies[w]) = T
             /\ Len(values[w]) = T + 1
             /\ T < args.num_steps => LastStepEndedEpisode(w)
    /\ (pc[w] \in {"ckpt", "act"} /\ Len(rewards[w]) > 0) =>
         ~done[w] /\ episode_length[w] > 0
    /\ (pc[w] \in {"ckpt", "act"} /\ step[w] = 0) =>
         /\ values[w] = <<>> /\ log_probs[w] = <<>>
         /\ rewards[w] = <<>> /\ entropies[w] = <<>>

\* A rollout cut short by the end of an episode, in a later update of the worker.
C9_Witness ==
  \E w \in Ranks :
    /\ pc[w] = "backward"
    /\ num_updates >= 1
    /\ Len(rewards[w]) < args.num_steps
    /\ Len(values[w]) = Len(rewards[w]) + 1

\* ---------------------------------------------------------------- C10
\* the worker has taken an environment step and not yet reached line 156
AfterStep(w) == pc[w] \in {"lock", "load", "store", "unlock", "tail"}

\* C10: episode_length never exceeds max_episode_length and is below it when
\* a step is about to be taken; a step after which the environment reported
\* done or episode_length reached max_episode_length ends the episode within
\* the same turn of the loop (reset, episode_number + 1, episode_length 0),
\* and any other step leaves the episode running.
C10_EpisodeCap ==
  /\ [](\A w \in Ranks :
          /\ episode_length[w] <= args.max_episode_length
          /\ pc[w] \in {"sync", "ckpt", "act"} =>
               episode_length[w] < args.max_episode_length
          /\ env_resets[w] = (episode_number[w] - args.episode_number) + 1)
  /\ [][\A w \in Ranks : (pc[w] = "tail" /\ pc'[w] # "tail") =>
          IF env_done[w] \/ episode_length[w] = args.max_episode_length
          THEN /\ episode_number'[w] = episode_number[w] + 1
               /\ episode_length'[w] = 0
               /\ env_resets'[w] = env_resets[w] + 1
          ELSE /\ episode_number'[w] = episode_number[w]
               /\ episode_length'[w] = episode_length[w]
               /\ env_resets'[w] = env_resets[w]]_vars

\* An episode that reached max_episode_length without the environment
\* reporting done has just been ended.
C10_Witness ==
  \E w \in Ranks :
    /\ pc[w] = "loss"
    /\ ~env_done[w]
    /\ episode_length[w] = 0
    /\ episode_number[w] = args.episode_number + 1
    /\ total_length[w] = args.total_length + args.max_episode_length

\* ---------------------------------------------------------------- C5
Period == args.checkpoint_freq \div args.num_processes

\* the test of line 115 has been made for the value v of total_length
Tested(w, v) == v < total_length[w] \/ (v = total_length[w] /\ pc[w] = "act")

SavesAt(v) == {i \in 1..Len(saves) : saves[i].total_length = v}

\* C5: every checkpoint is written by rank 0 at a positive multiple of
\* checkpoint_freq // num_processes, none twice, and every such value that
\* rank 0's total_length has gone through has its checkpoint.
C5_CheckpointCadence ==
  /\ \A i \in 1..Len(saves) :
       /\ saves[i].rank = 0
       /\ saves[i].total_length > 0
       /\ saves[i].total_length % Period = 0
  /\ \A v \in 0..total_length[0] :
       Cardinality(SavesAt(v)) =
         IF v >= args.total_length /\ v > 0 /\ v % Period = 0 /\ Tested(0, v)
         THEN 1 ELSE 0

\* Rank 0 has written its checkpoint at a multiple, and another worker has
\* gone through a multiple without writing one.
C5_Witness ==
  /\ Len(saves) = 1
  /\ Tested(0, saves[1].total_length)
  /\ \E w \in Ranks : w # 0 /\ total_length[w] > 0
                        /\ total_length[w] % Period = 0 /\ Tested(w, total_length[w])

\* ---------------------------------------------------------------- C7
Phases == <<"sync", "rollout", "loss", "backward", "push", "step">>

Prefix(n) == SubSeq(Phases, 1, n)

\* C7: the phases of an iteration happen in the order sync, rollout, loss,
\* backward, push, optimizer step, each once: the phases performed so far in
\* the current iteration are the prefix of that order the position calls for.
C7_PhaseOrder ==
  \A w \in Ranks :
    /\ (pc[w] \in {"ckpt", "act"} /\ step[w] = 0) => log[w] = Prefix(1)
    /\ (pc[w] \in {"ckpt", "act"} /\ step[w] > 0) => log[w] = Prefix(2)
    /\ (AfterStep(w) \/ pc[w] = "loss") => log[w] = Prefix(2)
    /\ pc[w] = "backward" => log[w] = Prefix(3)
    /\ pc[w] = "push" => log[w] = Prefix(4)
    /\ pc[w] = "optstep" => log[w] = Prefix(5)
    /\ pc[w] = "sync" => log[w] \in {<<>>, Phases}

\* A worker has completed an iteration whose rollout took all its steps.
C7_Witness ==
  \E w \in Ranks :
    /\ pc[w] = "sync"
    /\ log[w] = Phases
    /\ Len(rewards[w]) = args.num_steps
    /\ args.num_steps > 1

\* ---------------------------------------------------------------- C8
\* C8: the lock is held only inside the counter increment, never while a
\* worker syncs from, or steps, the shared parameters, and neither the sync
\* nor the optimizer step of a worker ever waits for another worker.
C8_NoOrdering ==
  \A w \in Ranks :
    /\ lock = w => InLockedIncrement(w)
    /\ pc[w] = "sync" => ENABLED Sync(w)
    /\ pc[w] = "optstep" => ENABLED OptimizerStep(w)

\* A worker has applied its optimizer step to shared parameters that another
\* worker had changed after the first worker's sync.
C8_Witness ==
  \E w \in Ranks : stale[w] /\ pc[w] = "sync" /\ log[w] = Phases

\* ---------------------------------------------------------------- C4
RECURSIVE Pow(_, _)
Pow(b, n) == IF n = 0 THEN 1 ELSE b * Pow(b, n - 1)

RECURSIVE Sigma(_, _, _)
\* F(a) + F(a + 1) + ... + F(b)
Sigma(F(_), a, b) == IF a > b THEN 0 ELSE F(a) + Sigma(F, a + 1, b)

\* Closed forms over a trajectory rs[1..T], vs[1..T+1] (vs[T+1] the bootstrap
\* value), lps[1..T], es[1..T].
RefReturn(t, rs, vs) ==
  LET T == Len(rs)
      term(j) == Pow(args.gamma, j - t) * rs[j]
  IN  Sigma(term, t, T) + Pow(args.gamma, T - t + 1) * vs[T + 1]

RefDelta(t, rs, vs) == rs[t] + args.gamma * vs[t + 1] - vs[t]

RefGae(t, rs, vs) ==
  LET term(j) == Pow(args.gamma * args.tau, j - t) * RefDelta(j, rs, vs)
  IN  Sigma(term, t, Len(rs))

RefValueLoss2(rs, vs) ==
  LET term(t) == (RefReturn(t, rs, vs) - vs[t]) * (RefReturn(t, rs, vs) - vs[t])
  IN  Sigma(term, 1, Len(rs))

RefPolicyLoss(rs, vs, lps, es) ==
  LET term(t) == 0 - lps[t] * RefGae(t, rs, vs) - args.entropy_coef * es[t]
  IN  Sigma(term, 1, Len(rs))

\* C4: the losses the backward loop leaves are the closed-form sums: the value
\* loss is the sum of 0.5 * (R_t - V_t)^2 (held doubled) and the policy loss
\* the sum of -logprob_t * gae_t - entropy_coef * entropy_t, with R_t the
\* discounted return bootstrapped from V_T and gae_t the (gamma * tau)-
\* discounted sum of the deltas.
C4_GAEMatchesReference ==
  \A w \in Ranks : pc[w] = "backward" =>
    /\ value_loss2[w] = RefValueLoss2(rewards[w], values[w])
    /\ policy_loss[w] = RefPolicyLoss(rewards[w], values[w], log_probs[w], entropies[w])

\* The losses of a rollout of more than one step that did not end the episode,
\* bootstrapped from a value other than 0.
C4_Witness ==
  \E w \in Ranks :
    /\ pc[w] = "backward"
    /\ Len(rewards[w]) >= 2
    /\ ~done[w]
    /\ R[w] # 0
    /\ policy_loss[w] # 0 /\ value_loss2[w] # 0

\* ---------------------------------------------------------------- C6
\* C6 as stated: a checkpoint overwrites the best copy only if its rolling
\* average return is strictly greater than that of every earlier checkpoint,
\* and the best copy is the checkpoint with the highest rolling average.
C6_BestIsHighest ==
  /\ \A i \in 1..Len(saves) : saves[i].is_best =>
       \A j \in 1..(i - 1) : Greater(saves[i].avg, saves[j].avg)
  /\ model_best # NoFile =>
       \A i \in 1..Len(saves) : ~Greater(saves[i].avg, model_best.avg)


\* ---------------------------------------------------------------- C11
\* what worker w does next, the acquisition of the lock apart
WorkerStep(w) ==
  \/ Sync(w) \/ Checkpoint(w) \/ Interact(w) \/ Load(w) \/ Store(w)
  \/ Release(w) \/ EndOfStep(w) \/ ComputeLoss(w) \/ Backward(w) \/ Push(w)
  \/ OptimizerStep(w)

\* main.py 91-96: every worker is a process of its own, which the scheduler
\* runs again and again (weak fairness of its steps); a process that waits
\* for the lock gets it if the lock is free again and again (strong fairness
\* of the acquisition, since others take the lock in between).
Fairness ==
  \A w \in 0..(NumProcesses - 1) :
    WF_vars(WorkerStep(w)) /\ SF_vars(Acquire(w))

\* Several workers under fair scheduling, on an environment that ends every
\* episode at its first step or on one that never ends an episode itself.
InitFair ==
  \E d \in BOOLEAN :
    Start([num_processes |-> NumProcesses, num_steps |-> NumSteps,
           max_episode_length |-> MaxEpisodeLength,
           checkpoint_freq |-> 2 * NumProcesses, total_length |-> 0,
           episode_number |-> 0, gamma |-> 1, tau |-> 1, entropy_coef |-> 1],
          [obs |-> {0}, rewards |-> {1}, dones |-> {d}, log_probs |-> {-1},
           entropies |-> {1}, hidden |-> 1, set_to_none |-> FALSE,
           horizon |-> MaxStepsConc])

SpecFair == InitFair /\ [][Next]_vars /\ Fairness

\* The run modelled is over for w: w is about to call env.step and the
\* environment steps of the run are used up.
Capped(w) == pc[w] = "act" /\ StepsTaken >= host.horizon

\* w has taken the last environment step of its rollout and not yet stepped
\* the optimizer
RolloutOver(w) ==
  \/ AfterStep(w) /\ RolloutEnds(w)
  \/ pc[w] \in {"loss", "backward", "push", "optstep"}

\* w is not at the end of its code: it can take a step, or waits for a lock
\* whose holder can
CanGoOn(w) ==
  \/ ENABLED WorkerStep(w)
  \/ ENABLED Acquire(w)
  \/ /\ pc[w] = "lock"
     /\ lock \in Ranks \ {w}
     /\ ENABLED WorkerStep(lock)

\* C11: a worker never stops on its own and never gets stuck.  No position
\* of the loop is terminal: away from the end of the modelled run a worker
\* can take a step, or waits for a lock whose holder can.  A rollout takes at
\* most num_steps environment steps.  The only way out of the wait for the
\* lock is to get it, and the only way on from the end of a rollout is the
\* optimizer step of that iteration.  Under fair scheduling every worker
\* again and again is not waiting for the lock (a waiting worker gets it),
\* again and again has no rollout left to apply (a rollout that is over is
\* followed by its optimizer step), and again and again has reached the end
\* of a rollout or of the modelled run (a rollout that is started ends).
C11_NeverStuck ==
  /\ [](\A w \in Ranks :
          /\ Capped(w) \/ CanGoOn(w)
          /\ step[w] < args.num_steps
          /\ Len(entropies[w]) <= args.num_steps
          /\ Len(entropies[w]) = args.num_steps =>
                RolloutOver(w) \/ pc[w] = "sync")
  /\ [][\A w \in Ranks :
          /\ pc[w] = "lock" => pc'[w] = "lock" \/ lock' = w
          /\ RolloutOver(w) =>
               RolloutOver(w)' \/ (pc'[w] = "sync" /\ log'[w] = Phases)]_vars
  /\ \A w \in 0..(NumProcesses - 1) :
       /\ []<>(pc[w] # "lock")
       /\ []<>(~RolloutOver(w))
       /\ []<>(RolloutOver(w) \/ Capped(w))

\* Every worker has gone through the lock and performed an optimizer step.
C11_Witness ==
  /\ \A w \in Ranks : pc[w] = "sync" /\ log[w] = Phases
  /\ num_updates >= NumProcesses
  /\ counter >= NumProcesses


\* ---------------------------------------------------------------- C12
\* With max_episode_length <= num_steps every rollout ends with its episode
\* and the next one starts a new episode: once the rollout is over, the list
\* rewards (train.py 188) holds the rewards of exactly the steps of the
\* episode that has just ended, the step that ended it included.
EpisodeJustEnded(w) ==
  /\ args.max_episode_length <= args.num_steps
  /\ pc[w] \in {"loss", "backward", "push", "optstep"}
  /\ done[w]

\* C12 as stated: the total recorded for an episode when it ends is the sum
\* of the rewards of exactly the steps of that episode, the step that ended
\* it included, and the rolling average is the mean of the last
\* avg_over_num_episodes totals recorded.
C12_EpisodeTotal ==
  \A w \in Ranks :
    EpisodeJustEnded(w) =>
      LET list == episode_total_rewards_list[w]
          last == LastN(list, avg_over_num_episodes)
      IN  /\ list # <<>>
          /\ list[Len(list)] = SumSeq(rewards[w])
          /\ Len(list) > avg_over_num_episodes =>
               avg_episode_return[w] = [num |-> SumSeq(last), den |-> Len(last)]

====
